---- MODULE Spec2Model ----
(***************************************************************************)
(* Bug-tracker backend: access control, project membership and the ticket  *)
(* lifecycle, modelled from the controllers, the models and the auth       *)
(* middleware.  Every request is one atomic step: the middleware chain     *)
(* (authenticate, authorize), then the controller, then the pre-save hook. *)
(***************************************************************************)
EXTENDS Integers, Sequences, FiniteSets, TLC

VARIABLES users, projects, tickets, last, inflight

vars == <<users, projects, tickets, last, inflight>>

\* ---------------------------------------------------------------- values

Null == "null"
Undefined == "undefined"
\* a Date value; the code only ever tests a stored date for presence
SomeDate == "date"

UserIds == {"u1", "u2", "u3"}
ProjIds == {"p1", "p2"}
TicketIds == {"t1", "t2"}
Names == {"alpha", "beta"}

\* the longest statusHistory the model follows
MaxHistory == 4

UserRoles == {"USER", "ADMIN"}
MemberRoles == {"VIEWER", "CONTRIBUTOR", "MANAGER"}
TicketStatuses == {"OPEN", "IN_PROGRESS", "RESOLVED", "CLOSED"}
TicketPriorities == {"LOW", "MEDIUM", "HIGH"}

\* the bounds of estimatedHours and actualHours
MinHours == 0
MaxHours == 1000
ProjectStatuses == {"PLANNING", "ACTIVE", "ON_HOLD", "COMPLETED", "ARCHIVED"}

roleHierarchy == [VIEWER |-> 1, CONTRIBUTOR |-> 2, MANAGER |-> 3]

\* ---------------------------------------------------------------- store helpers

Put(f, k, v) == [x \in (DOMAIN f) \cup {k} |-> IF x = k THEN v ELSE f[x]]

Remove(f, k) == [x \in (DOMAIN f) \ {k} |-> f[x]]

\* Array.prototype.findIndex over project.members (0 when absent)
findMemberIndex(members, userId) ==
    IF \E i \in 1..Len(members) : members[i].user = userId
    THEN CHOOSE i \in 1..Len(members) :
            /\ members[i].user = userId
            /\ \A j \in 1..(i - 1) : members[j].user # userId
    ELSE 0

spliceMember(members, i) ==
    [j \in 1..(Len(members) - 1) |-> IF j < i THEN members[j] ELSE members[j + 1]]

\* ---------------------------------------------------------------- Project.hasAccess

hasAccessNoHierarchy(project, userId, requiredRole) ==
    \/ project.createdBy = userId
    \/ findMemberIndex(project.members, userId) # 0

hasAccessNoCreator(project, userId, requiredRole) ==
    LET i == findMemberIndex(project.members, userId) IN
    IF i = 0 THEN FALSE
    ELSE roleHierarchy[project.members[i].role] >= roleHierarchy[requiredRole]

hasAccess(project, userId, requiredRole) ==
    IF project.createdBy = userId THEN TRUE
    ELSE LET i == findMemberIndex(project.members, userId) IN
         IF i = 0 THEN FALSE
         ELSE roleHierarchy[project.members[i].role] >= roleHierarchy[requiredRole]

\* ---------------------------------------------------------------- middleware

\* authenticate: 0 lets the request through, 401 rejects it
authenticateNoActiveCheck(a) ==
    IF a \notin DOMAIN users THEN 401 ELSE 0

authenticate(a) ==
    IF a \notin DOMAIN users THEN 401
    ELSE IF ~users[a].isActive THEN 401
    ELSE 0

\* authorize('ADMIN')
authorize(a) == IF users[a].role # "ADMIN" THEN 403 ELSE 0

isAdmin(a) == users[a].role = "ADMIN"

\* User.findOne({ _id, isActive: true })
findActiveUser(userId) == userId \in DOMAIN users /\ users[userId].isActive

\* Project.findOne({ _id, isActive: true })
findActiveProject(id) == id \in DOMAIN projects /\ projects[id].isActive

\* ---------------------------------------------------------------- Ticket pre('save')

preSaveClearOnClose(doc, statusModified, isNew, modifiedBy) ==
    LET hist == IF statusModified /\ ~isNew
                THEN Append(doc.statusHistory,
                            [status |-> doc.status, changedBy |-> modifiedBy])
                ELSE doc.statusHistory
        r1 == IF doc.status = "RESOLVED" /\ doc.resolvedAt = Null
              THEN SomeDate ELSE doc.resolvedAt
        c1 == IF doc.status = "CLOSED" /\ doc.closedAt = Null
              THEN SomeDate ELSE doc.closedAt
        r2 == IF doc.status # "RESOLVED" THEN Null ELSE r1
        c2 == IF doc.status # "CLOSED" THEN Null ELSE c1
    IN IF ~statusModified THEN [doc EXCEPT !.statusHistory = hist]
       ELSE [doc EXCEPT !.statusHistory = hist, !.resolvedAt = r2, !.closedAt = c2]

preSaveNoCloseClear(doc, statusModified, isNew, modifiedBy) ==
    LET hist == IF statusModified /\ ~isNew
                THEN Append(doc.statusHistory,
                            [status |-> doc.status, changedBy |-> modifiedBy])
                ELSE doc.statusHistory
        r1 == IF doc.status = "RESOLVED" /\ doc.resolvedAt = Null
              THEN SomeDate ELSE doc.resolvedAt
        c1 == IF doc.status = "CLOSED" /\ doc.closedAt = Null
              THEN SomeDate ELSE doc.closedAt
        r2 == IF doc.status # "RESOLVED" /\ doc.status # "CLOSED" THEN Null ELSE r1
    IN IF ~statusModified THEN [doc EXCEPT !.statusHistory = hist]
       ELSE [doc EXCEPT !.statusHistory = hist, !.resolvedAt = r2, !.closedAt = c1]

preSaveNoOpenClear(doc, statusModified, isNew, modifiedBy) ==
    LET hist == IF statusModified /\ ~isNew
                THEN Append(doc.statusHistory,
                            [status |-> doc.status, changedBy |-> modifiedBy])
                ELSE doc.statusHistory
        r1 == IF doc.status = "RESOLVED" /\ doc.resolvedAt = Null
              THEN SomeDate ELSE doc.resolvedAt
        c1 == IF doc.status = "CLOSED" /\ doc.closedAt = Null
              THEN SomeDate ELSE doc.closedAt
        r2 == IF doc.status = "IN_PROGRESS" THEN Null ELSE r1
        c2 == IF doc.status # "CLOSED" THEN Null ELSE c1
    IN IF ~statusModified THEN [doc EXCEPT !.statusHistory = hist]
       ELSE [doc EXCEPT !.statusHistory = hist, !.resolvedAt = r2, !.closedAt = c2]

preSaveByCreator(doc, statusModified, isNew, modifiedBy) ==
    LET hist == IF statusModified /\ ~isNew
                THEN Append(doc.statusHistory,
                            [status |-> doc.status, changedBy |-> doc.createdBy])
                ELSE doc.statusHistory
        r1 == IF doc.status = "RESOLVED" /\ doc.resolvedAt = Null
              THEN SomeDate ELSE doc.resolvedAt
        c1 == IF doc.status = "CLOSED" /\ doc.closedAt = Null
              THEN SomeDate ELSE doc.closedAt
        r2 == IF doc.status # "RESOLVED" /\ doc.status # "CLOSED" THEN Null ELSE r1
        c2 == IF doc.status # "CLOSED" THEN Null ELSE c1
    IN IF ~statusModified THEN [doc EXCEPT !.statusHistory = hist]
       ELSE [doc EXCEPT !.statusHistory = hist, !.resolvedAt = r2, !.closedAt = c2]

preSaveOverwriteLast(doc, statusModified, isNew, modifiedBy) ==
    LET hist == IF statusModified /\ ~isNew
                THEN [doc.statusHistory EXCEPT
                        ![Len(doc.statusHistory)] =
                            [status |-> doc.status, changedBy |-> modifiedBy]]
                ELSE doc.statusHistory
        r1 == IF doc.status = "RESOLVED" /\ doc.resolvedAt = Null
              THEN SomeDate ELSE doc.resolvedAt
        c1 == IF doc.status = "CLOSED" /\ doc.closedAt = Null
              THEN SomeDate ELSE doc.closedAt
        r2 == IF doc.status # "RESOLVED" /\ doc.status # "CLOSED" THEN Null ELSE r1
        c2 == IF doc.status # "CLOSED" THEN Null ELSE c1
    IN IF ~statusModified THEN [doc EXCEPT !.statusHistory = hist]
       ELSE [doc EXCEPT !.statusHistory = hist, !.resolvedAt = r2, !.closedAt = c2]

\* doc: the document about to be written; statusModified: isModified('status');
\* modifiedBy: the property the controller sets before save
preSave(doc, statusModified, isNew, modifiedBy) ==
    LET hist == IF statusModified /\ ~isNew
                THEN Append(doc.statusHistory,
                            [status |-> doc.status, changedBy |-> modifiedBy])
                ELSE doc.statusHistory
        r1 == IF doc.status = "RESOLVED" /\ doc.resolvedAt = Null
              THEN SomeDate ELSE doc.resolvedAt
        c1 == IF doc.status = "CLOSED" /\ doc.closedAt = Null
              THEN SomeDate ELSE doc.closedAt
        r2 == IF doc.status # "RESOLVED" /\ doc.status # "CLOSED" THEN Null ELSE r1
        c2 == IF doc.status # "CLOSED" THEN Null ELSE c1
    IN IF ~statusModified THEN [doc EXCEPT !.statusHistory = hist]
       ELSE [doc EXCEPT !.statusHistory = hist, !.resolvedAt = r2, !.closedAt = c2]

\* ---------------------------------------------------------------- responses

\* a response that writes nothing and requests no notification
Resp(code) ==
    [code |-> code, users |-> users, projects |-> projects, tickets |-> tickets,
     mail |-> << >>]

RespTickets(code, tk) == [Resp(code) EXCEPT !.tickets = tk]

RespProjects(code, pr) == [Resp(code) EXCEPT !.projects = pr]

RespUsers(code, us) == [Resp(code) EXCEPT !.users = us]

\* ---------------------------------------------------------------- emailService

\* one call of sendEmail: the kind of message and the user whose address it
\* goes to; the promise is pending when the controller goes on
Mail(kind, to) == [kind |-> kind, to |-> to, state |-> "pending"]

sendWelcomeEmail(user) == <<Mail("welcome", user)>>

sendProjectInvitationEmail(invitedUser) == <<Mail("invitation", invitedUser)>>

sendTicketAssignmentEmail(assignedUser) == <<Mail("assignment", assignedUser)>>

sendTicketStatusUpdateEmailToBoth(ticket) ==
    (IF ticket.assignedTo # Null THEN <<Mail("status", ticket.assignedTo)>> ELSE << >>)
    \o <<Mail("status", ticket.createdBy)>>

\* recipients: the assignee, then the creator unless it has the same address
sendTicketStatusUpdateEmail(ticket) ==
    (IF ticket.assignedTo # Null THEN <<Mail("status", ticket.assignedTo)>> ELSE << >>)
    \o (IF ticket.createdBy # ticket.assignedTo
        THEN <<Mail("status", ticket.createdBy)>> ELSE << >>)

\* toString() of a populated user reference: the printed document, which shows
\* the fields the populate call selected; undefined for a null reference
populatedToString(userId, select) ==
    IF userId = Null THEN <<Undefined, Undefined>> ELSE <<userId, select>>

RespMail(r, mail) == [r EXCEPT !.mail = mail]

\* ---------------------------------------------------------------- ticketController

\* the paths of a request body that carry a number
NumberFields == {"estimatedHours", "actualHours"}

\* body[f] !== undefined: the body is a record of the fields the request
\* gives; a field may also be given as Undefined, which is to leave it out
Supplied(body, f) ==
    /\ f \in DOMAIN body
    /\ IF f \in NumberFields THEN TRUE ELSE body[f] # Undefined

field(body, f) == IF Supplied(body, f) THEN body[f] ELSE Undefined

schemaValidateNothing(doc) == 0

\* the min/max validators of the schema's estimatedHours and actualHours,
\* run by save(); estimatedHours is << >> while the path is unset
schemaValidate(doc) ==
    IF /\ \A i \in 1..Len(doc.estimatedHours) :
             doc.estimatedHours[i] >= MinHours /\ doc.estimatedHours[i] <= MaxHours
       /\ doc.actualHours >= MinHours /\ doc.actualHours <= MaxHours
    THEN 0 ELSE 400

\* express-validator chains of the ticket routes: 0 when the body passes
validateTicketCreation(body) ==
    IF ~Supplied(body, "priority") THEN 400
    ELSE IF body.priority \notin TicketPriorities THEN 400
    ELSE IF Supplied(body, "estimatedHours")
            /\ (body.estimatedHours < MinHours \/ body.estimatedHours > MaxHours)
         THEN 400
    ELSE 0

validateTicketUpdate(body) ==
    IF Supplied(body, "status") /\ body.status \notin TicketStatuses THEN 400
    ELSE IF Supplied(body, "priority") /\ body.priority \notin TicketPriorities THEN 400
    ELSE IF Supplied(body, "actualHours")
            /\ (body.actualHours < MinHours \/ body.actualHours > MaxHours)
         THEN 400
    ELSE 0

\* assignee checks shared by createTicket, updateTicket and assignTicket:
\* 0 when the assignee is acceptable, else the status code thrown
checkAssigneeNoAccess(a, project, assignedTo) ==
    IF ~findActiveUser(assignedTo) THEN 404 ELSE 0

checkAssignee(a, project, assignedTo) ==
    IF ~findActiveUser(assignedTo) THEN 404
    ELSE IF ~isAdmin(a) /\ ~hasAccess(project, assignedTo, "VIEWER") THEN 403
    ELSE 0

createTicketNoSeed(a, id, body) ==
    LET project == field(body, "project")
        assignedTo == field(body, "assignedTo")
    IN
    IF authenticate(a) # 0 THEN Resp(401)
    ELSE IF validateTicketCreation(body) # 0 THEN Resp(400)
    ELSE IF ~findActiveProject(project) THEN Resp(404)
    ELSE IF ~isAdmin(a) /\ ~hasAccess(projects[project], a, "CONTRIBUTOR") THEN Resp(403)
    ELSE IF assignedTo # Undefined /\ checkAssignee(a, projects[project], assignedTo) # 0
         THEN Resp(checkAssignee(a, projects[project], assignedTo))
    ELSE LET doc == [project |-> project,
                     status |-> "OPEN",
                     priority |-> body.priority,
                     assignedTo |-> IF assignedTo # Undefined THEN assignedTo ELSE Null,
                     createdBy |-> a,
                     estimatedHours |-> IF Supplied(body, "estimatedHours")
                                        THEN <<body.estimatedHours>> ELSE << >>,
                     actualHours |-> 0,
                     statusHistory |-> << >>,
                     resolvedAt |-> Null,
                     closedAt |-> Null]
         IN
         IF schemaValidate(doc) # 0 THEN Resp(400)
         \* a defaulted status is not a modified path of the new document
         ELSE RespMail(RespTickets(201, Put(tickets, id, preSave(doc, FALSE, TRUE, Null))),
                       IF assignedTo # Undefined /\ assignedTo # a
                       THEN sendTicketAssignmentEmail(assignedTo) ELSE << >>)

createTicket(a, id, body) ==
    LET project == field(body, "project")
        assignedTo == field(body, "assignedTo")
    IN
    IF authenticate(a) # 0 THEN Resp(401)
    ELSE IF validateTicketCreation(body) # 0 THEN Resp(400)
    ELSE IF ~findActiveProject(project) THEN Resp(404)
    ELSE IF ~isAdmin(a) /\ ~hasAccess(projects[project], a, "CONTRIBUTOR") THEN Resp(403)
    ELSE IF assignedTo # Undefined /\ checkAssignee(a, projects[project], assignedTo) # 0
         THEN Resp(checkAssignee(a, projects[project], assignedTo))
    ELSE LET doc == [project |-> project,
                     status |-> "OPEN",
                     priority |-> body.priority,
                     assignedTo |-> IF assignedTo # Undefined THEN assignedTo ELSE Null,
                     createdBy |-> a,
                     estimatedHours |-> IF Supplied(body, "estimatedHours")
                                        THEN <<body.estimatedHours>> ELSE << >>,
                     actualHours |-> 0,
                     statusHistory |-> <<[status |-> "OPEN", changedBy |-> a]>>,
                     resolvedAt |-> Null,
                     closedAt |-> Null]
         IN
         IF schemaValidate(doc) # 0 THEN Resp(400)
         \* a defaulted status is not a modified path of the new document
         ELSE RespMail(RespTickets(201, Put(tickets, id, preSave(doc, FALSE, TRUE, Null))),
                       IF assignedTo # Undefined /\ assignedTo # a
                       THEN sendTicketAssignmentEmail(assignedTo) ELSE << >>)

\* Ticket.find(query) of getAllTickets: the ids of the tickets the query built
\* from the request matches.  For a caller who is not an ADMIN the query starts
\* as project $in the active projects the caller created or is a member of; a
\* project filter in the request then replaces that condition.  query: [project,
\* status], Undefined for a filter the request leaves out
findTickets(a, query) ==
    LET accessibleProjects ==
            {p \in DOMAIN projects :
                /\ projects[p].createdBy = a
                     \/ findMemberIndex(projects[p].members, a) # 0
                /\ projects[p].isActive}
        matchesProject(t) ==
            IF query.project # Undefined THEN tickets[t].project = query.project
            ELSE IF users[a].role # "ADMIN" THEN tickets[t].project \in accessibleProjects
            ELSE TRUE
        matchesStatus(t) ==
            IF query.status # Undefined THEN tickets[t].status = query.status ELSE TRUE
    IN {t \in DOMAIN tickets : matchesProject(t) /\ matchesStatus(t)}

getAllTickets(a, query) ==
    IF authenticate(a) # 0 THEN Resp(401) ELSE Resp(200)

getTicketById(a, id) ==
    IF authenticate(a) # 0 THEN Resp(401)
    ELSE IF id \notin DOMAIN tickets THEN Resp(404)
    ELSE IF tickets[id].project \notin DOMAIN projects THEN Resp(500)
    ELSE IF ~isAdmin(a) /\ ~hasAccess(projects[tickets[id].project], a, "VIEWER")
         THEN Resp(403)
    ELSE Resp(200)

\* what updateTicket writes into the loaded document: the allowedUpdates the
\* body gives
applyUpdatesDefaultPriority(ticket, updates) ==
    [ticket EXCEPT
       !.status = IF Supplied(updates, "status") THEN updates.status ELSE @,
       !.priority = IF Supplied(updates, "priority") THEN updates.priority ELSE "MEDIUM",
       !.assignedTo = IF Supplied(updates, "assignedTo") THEN updates.assignedTo ELSE @,
       !.estimatedHours = IF Supplied(updates, "estimatedHours")
                          THEN <<updates.estimatedHours>> ELSE @,
       !.actualHours = IF Supplied(updates, "actualHours")
                       THEN updates.actualHours ELSE @]

applyUpdates(ticket, updates) ==
    [ticket EXCEPT
       !.status = IF Supplied(updates, "status") THEN updates.status ELSE @,
       !.priority = IF Supplied(updates, "priority") THEN updates.priority ELSE @,
       !.assignedTo = IF Supplied(updates, "assignedTo") THEN updates.assignedTo ELSE @,
       !.estimatedHours = IF Supplied(updates, "estimatedHours")
                          THEN <<updates.estimatedHours>> ELSE @,
       !.actualHours = IF Supplied(updates, "actualHours")
                       THEN updates.actualHours ELSE @]

\* updates: the body, a record of the fields it gives
updateTicket(a, id, updates) ==
    IF authenticate(a) # 0 THEN Resp(401)
    ELSE IF validateTicketUpdate(updates) # 0 THEN Resp(400)
    ELSE IF id \notin DOMAIN tickets THEN Resp(404)
    ELSE IF tickets[id].project \notin DOMAIN projects THEN Resp(500)
    ELSE LET ticket == tickets[id]
             project == projects[ticket.project]
         IN
         IF ~isAdmin(a) /\ ~hasAccess(project, a, "CONTRIBUTOR") THEN Resp(403)
         ELSE IF field(updates, "assignedTo") \notin {Undefined, Null}
                 /\ checkAssignee(a, project, updates.assignedTo) # 0
              THEN Resp(checkAssignee(a, project, updates.assignedTo))
         ELSE LET doc == applyUpdates(ticket, updates)
                  saved == preSave(doc, doc.status # ticket.status, FALSE, a)
                  shouldNotifyStatusChange == ticket.status # saved.status
                  shouldNotifyAssignment ==
                      /\ Supplied(updates, "assignedTo")
                      /\ populatedToString(ticket.assignedTo, "all")
                            # populatedToString(saved.assignedTo, "name email")
              IN IF schemaValidate(doc) # 0 THEN Resp(400)
                 ELSE
                 RespMail(RespTickets(200, Put(tickets, id, saved)),
                     (IF shouldNotifyStatusChange
                      THEN sendTicketStatusUpdateEmail(saved) ELSE << >>)
                     \o (IF shouldNotifyAssignment /\ saved.assignedTo # Null
                            /\ saved.assignedTo # a
                         THEN sendTicketAssignmentEmail(saved.assignedTo) ELSE << >>))

deleteTicketAnyMember(a, id) ==
    IF authenticate(a) # 0 THEN Resp(401)
    ELSE IF id \notin DOMAIN tickets THEN Resp(404)
    ELSE IF tickets[id].project \notin DOMAIN projects THEN Resp(500)
    ELSE IF ~isAdmin(a) /\ ~hasAccess(projects[tickets[id].project], a, "MANAGER")
            /\ tickets[id].createdBy # a
         THEN Resp(403)
         ELSE RespTickets(200, Remove(tickets, id))

deleteTicket(a, id) ==
    IF authenticate(a) # 0 THEN Resp(401)
    ELSE IF id \notin DOMAIN tickets THEN Resp(404)
    ELSE IF tickets[id].project \notin DOMAIN projects THEN Resp(500)
    ELSE LET isProjectCreator == projects[tickets[id].project].createdBy = a
             isTicketCreator == tickets[id].createdBy = a
         IN IF ~isAdmin(a) /\ ~isProjectCreator /\ ~isTicketCreator THEN Resp(403)
            ELSE RespTickets(200, Remove(tickets, id))

assignTicketWriteFirst(a, id, userId) ==
    IF authenticate(a) # 0 THEN Resp(401)
    ELSE IF id \notin DOMAIN tickets THEN Resp(404)
    ELSE IF tickets[id].project \notin DOMAIN projects THEN Resp(500)
    ELSE LET ticket == tickets[id]
             project == projects[ticket.project]
             saved == Put(tickets, id,
                          preSave([ticket EXCEPT !.assignedTo = userId], FALSE, FALSE, a))
         IN
         IF ~isAdmin(a) /\ ~hasAccess(project, a, "CONTRIBUTOR") THEN Resp(403)
         ELSE IF checkAssignee(a, project, userId) # 0
              THEN RespTickets(checkAssignee(a, project, userId), saved)
         ELSE RespMail(RespTickets(200, saved),
                  IF userId # a THEN sendTicketAssignmentEmail(userId) ELSE << >>)

assignTicket(a, id, userId) ==
    IF authenticate(a) # 0 THEN Resp(401)
    ELSE IF id \notin DOMAIN tickets THEN Resp(404)
    ELSE IF tickets[id].project \notin DOMAIN projects THEN Resp(500)
    ELSE LET ticket == tickets[id]
             project == projects[ticket.project]
         IN
         IF ~isAdmin(a) /\ ~hasAccess(project, a, "CONTRIBUTOR") THEN Resp(403)
         ELSE IF checkAssignee(a, project, userId) # 0
              THEN Resp(checkAssignee(a, project, userId))
         ELSE RespMail(
                  RespTickets(200,
                      Put(tickets, id,
                          preSave([ticket EXCEPT !.assignedTo = userId], FALSE, FALSE, a))),
                  IF userId # a THEN sendTicketAssignmentEmail(userId) ELSE << >>)

unassignTicketViewerGate(a, id) ==
    IF authenticate(a) # 0 THEN Resp(401)
    ELSE IF id \notin DOMAIN tickets THEN Resp(404)
    ELSE IF tickets[id].project \notin DOMAIN projects THEN Resp(500)
    ELSE LET ticket == tickets[id]
             project == projects[ticket.project]
         IN
         IF ~isAdmin(a) /\ ~hasAccess(project, a, "VIEWER") THEN Resp(403)
         ELSE RespTickets(200,
                  Put(tickets, id,
                      preSave([ticket EXCEPT !.assignedTo = Null], FALSE, FALSE, a)))

unassignTicket(a, id) ==
    IF authenticate(a) # 0 THEN Resp(401)
    ELSE IF id \notin DOMAIN tickets THEN Resp(404)
    ELSE IF tickets[id].project \notin DOMAIN projects THEN Resp(500)
    ELSE LET ticket == tickets[id]
             project == projects[ticket.project]
         IN
         IF ~isAdmin(a) /\ ~hasAccess(project, a, "CONTRIBUTOR") THEN Resp(403)
         ELSE RespTickets(200,
                  Put(tickets, id,
                      preSave([ticket EXCEPT !.assignedTo = Null], FALSE, FALSE, a)))

\* ---------------------------------------------------------------- projectController

nameTakenActiveOnly(name, exceptId) ==
    \E q \in (DOMAIN projects) \ {exceptId} :
        projects[q].isActive /\ projects[q].name = name

\* Project.findOne({ name }) / Project.findOne({ name, _id: { $ne: id } })
nameTaken(name, exceptId) ==
    \E q \in (DOMAIN projects) \ {exceptId} : projects[q].name = name

createProject(a, id, name, status) ==
    IF authenticate(a) # 0 THEN Resp(401)
    ELSE IF authorize(a) # 0 THEN Resp(403)
    ELSE IF nameTaken(name, Null) THEN Resp(400)
    ELSE RespProjects(201,
             Put(projects, id,
                 [name |-> name,
                  createdBy |-> a,
                  isActive |-> TRUE,
                  status |-> IF status # Undefined THEN status ELSE "ACTIVE",
                  members |-> << >>]))

getProjectById(a, id) ==
    IF authenticate(a) # 0 THEN Resp(401)
    ELSE IF ~findActiveProject(id) THEN Resp(404)
    ELSE IF ~isAdmin(a) /\ ~hasAccess(projects[id], a, "VIEWER") THEN Resp(403)
    ELSE Resp(200)

\* 0 when the actor may manage the project, else 403 (admin or creator)
checkProjectOwnerAllowManager(a, project) ==
    IF ~isAdmin(a) /\ ~hasAccess(project, a, "MANAGER") THEN 403 ELSE 0

checkProjectOwner(a, project) ==
    IF ~isAdmin(a) /\ project.createdBy # a THEN 403 ELSE 0

\* updates: [name, status], Undefined for a field the body leaves out
updateProject(a, id, updates) ==
    IF authenticate(a) # 0 THEN Resp(401)
    ELSE IF ~findActiveProject(id) THEN Resp(404)
    ELSE IF checkProjectOwner(a, projects[id]) # 0 THEN Resp(403)
    ELSE IF updates.name # Undefined /\ updates.name # projects[id].name
            /\ nameTaken(updates.name, id)
         THEN Resp(400)
    ELSE RespProjects(200,
             Put(projects, id,
                 [projects[id] EXCEPT
                    !.name = IF updates.name # Undefined THEN updates.name ELSE @,
                    !.status = IF updates.status # Undefined THEN updates.status ELSE @]))

deleteProjectAlwaysRemove(a, id) ==
    IF authenticate(a) # 0 THEN Resp(401)
    ELSE IF authorize(a) # 0 THEN Resp(403)
    ELSE IF ~findActiveProject(id) THEN Resp(404)
    ELSE RespProjects(200, Remove(projects, id))

deleteProjectFindById(a, id) ==
    IF authenticate(a) # 0 THEN Resp(401)
    ELSE IF authorize(a) # 0 THEN Resp(403)
    ELSE IF id \notin DOMAIN projects THEN Resp(404)
    ELSE IF \E t \in DOMAIN tickets : tickets[t].project = id
         THEN RespProjects(200,
                  Put(projects, id,
                      [projects[id] EXCEPT !.isActive = FALSE, !.status = "ARCHIVED"]))
         ELSE RespProjects(200, Remove(projects, id))

deleteProject(a, id) ==
    IF authenticate(a) # 0 THEN Resp(401)
    ELSE IF authorize(a) # 0 THEN Resp(403)
    ELSE IF ~findActiveProject(id) THEN Resp(404)
    ELSE IF \E t \in DOMAIN tickets : tickets[t].project = id
         THEN RespProjects(200,
                  Put(projects, id,
                      [projects[id] EXCEPT !.isActive = FALSE, !.status = "ARCHIVED"]))
         ELSE RespProjects(200, Remove(projects, id))

addProjectMemberNoDuplicateCheck(a, id, userId, role) ==
    IF authenticate(a) # 0 THEN Resp(401)
    ELSE IF ~findActiveProject(id) THEN Resp(404)
    ELSE IF checkProjectOwner(a, projects[id]) # 0 THEN Resp(403)
    ELSE IF ~findActiveUser(userId) THEN Resp(404)
    ELSE RespMail(
             RespProjects(200,
                 Put(projects, id,
                     [projects[id] EXCEPT
                        !.members = Append(@,
                            [user |-> userId,
                             role |-> IF role # Undefined THEN role ELSE "CONTRIBUTOR"])])),
             sendProjectInvitationEmail(userId))

\* role: a member role, or Undefined for the default
addProjectMember(a, id, userId, role) ==
    IF authenticate(a) # 0 THEN Resp(401)
    ELSE IF ~findActiveProject(id) THEN Resp(404)
    ELSE IF checkProjectOwner(a, projects[id]) # 0 THEN Resp(403)
    ELSE IF ~findActiveUser(userId) THEN Resp(404)
    ELSE IF findMemberIndex(projects[id].members, userId) # 0 THEN Resp(400)
    ELSE RespMail(
             RespProjects(200,
                 Put(projects, id,
                     [projects[id] EXCEPT
                        !.members = Append(@,
                            [user |-> userId,
                             role |-> IF role # Undefined THEN role ELSE "CONTRIBUTOR"])])),
             sendProjectInvitationEmail(userId))

removeProjectMember(a, id, userId) ==
    IF authenticate(a) # 0 THEN Resp(401)
    ELSE IF ~findActiveProject(id) THEN Resp(404)
    ELSE IF checkProjectOwner(a, projects[id]) # 0 THEN Resp(403)
    ELSE LET memberIndex == findMemberIndex(projects[id].members, userId) IN
         IF memberIndex = 0 THEN Resp(404)
         ELSE RespProjects(200,
                  Put(projects, id,
                      [projects[id] EXCEPT !.members = spliceMember(@, memberIndex)]))

updateMemberRole(a, id, userId, role) ==
    IF authenticate(a) # 0 THEN Resp(401)
    ELSE IF role \notin MemberRoles THEN Resp(400)
    ELSE IF ~findActiveProject(id) THEN Resp(404)
    ELSE IF checkProjectOwner(a, projects[id]) # 0 THEN Resp(403)
    ELSE LET i == findMemberIndex(projects[id].members, userId) IN
         IF i = 0 THEN Resp(404)
         ELSE RespProjects(200,
                  Put(projects, id,
                      [projects[id] EXCEPT !.members[i].role = role]))

\* ---------------------------------------------------------------- userController

\* a user record is identified by its e-mail address: email is the address the
\* body gives, and the id of the record it creates; role: Undefined for the default
registerUser(email, role) ==
    IF email \in DOMAIN users THEN Resp(400)
    ELSE RespMail(
             RespUsers(201,
                 Put(users, email,
                     [role |-> IF role # Undefined THEN role ELSE "USER",
                      isActive |-> TRUE])),
             sendWelcomeEmail(email))

updateUserStatus(a, userId, isActive) ==
    IF authenticate(a) # 0 THEN Resp(401)
    ELSE IF authorize(a) # 0 THEN Resp(403)
    ELSE IF userId \notin DOMAIN users THEN Resp(404)
    ELSE IF userId = a THEN Resp(400)
    ELSE RespUsers(200, Put(users, userId, [users[userId] EXCEPT !.isActive = isActive]))

updateUserRoleAllowSelf(a, userId, role) ==
    IF authenticate(a) # 0 THEN Resp(401)
    ELSE IF authorize(a) # 0 THEN Resp(403)
    ELSE IF role \notin UserRoles THEN Resp(400)
    ELSE IF userId \notin DOMAIN users THEN Resp(404)
    ELSE RespUsers(200, Put(users, userId, [users[userId] EXCEPT !.role = role]))

updateUserRole(a, userId, role) ==
    IF authenticate(a) # 0 THEN Resp(401)
    ELSE IF authorize(a) # 0 THEN Resp(403)
    ELSE IF role \notin UserRoles THEN Resp(400)
    ELSE IF userId \notin DOMAIN users THEN Resp(404)
    ELSE IF userId = a THEN Resp(400)
    ELSE RespUsers(200, Put(users, userId, [users[userId] EXCEPT !.role = role]))

deleteUser(a, userId) ==
    IF authenticate(a) # 0 THEN Resp(401)
    ELSE IF authorize(a) # 0 THEN Resp(403)
    ELSE IF userId \notin DOMAIN users THEN Resp(404)
    ELSE IF userId = a THEN Resp(400)
    ELSE LET hasProjects == \E p \in DOMAIN projects : projects[p].createdBy = userId
             hasTickets == \E t \in DOMAIN tickets :
                              tickets[t].createdBy = userId \/ tickets[t].assignedTo = userId
         IN IF hasProjects \/ hasTickets
            THEN RespUsers(200, Put(users, userId, [users[userId] EXCEPT !.isActive = FALSE]))
            ELSE RespUsers(200, Remove(users, userId))

\* ---------------------------------------------------------------- requests

\* one request served: the stores after it, and what was asked and answered
\* (target: the :id of the route, or the id the new record gets; project: the
\* project id in the body; user: the user id in the body or the route;
\* Undefined for what the request does not carry)
Serve(op, a, target, project, user, r) ==
    /\ users' = r.users
    /\ projects' = r.projects
    /\ tickets' = r.tickets
    /\ last' = [op |-> op, actor |-> a, target |-> target, project |-> project,
                user |-> user, code |-> r.code, mail |-> r.mail]
    /\ UNCHANGED inflight

CreateTicketBody(a, id, body) ==
    /\ id \notin DOMAIN tickets
    /\ Serve("createTicket", a, id, field(body, "project"), field(body, "assignedTo"),
             createTicket(a, id, body))

\* a body with project, assignee and a priority, and nothing else
CreateTicket(a, id, p, asg) ==
    CreateTicketBody(a, id, [project |-> p, assignedTo |-> asg, priority |-> "MEDIUM"])

\* the response carries findTickets(a, query) of the stores, which the request
\* leaves as they are
GetAllTickets(a, query) ==
    Serve("getAllTickets", a, Undefined, query.project, Undefined, getAllTickets(a, query))

GetTicketById(a, t) ==
    Serve("getTicketById", a, t, Undefined, Undefined, getTicketById(a, t))

UpdateTicketBody(a, t, updates) ==
    /\ (t \in DOMAIN tickets /\ Supplied(updates, "status")
          /\ updates.status # tickets[t].status)
           => Len(tickets[t].statusHistory) < MaxHistory
    /\ Serve("updateTicket", a, t, Undefined, field(updates, "assignedTo"),
             updateTicket(a, t, updates))

\* a body with status and assignee only
UpdateTicket(a, t, st, asg) ==
    UpdateTicketBody(a, t, [status |-> st, assignedTo |-> asg])

DeleteTicket(a, t) ==
    Serve("deleteTicket", a, t, Undefined, Undefined, deleteTicket(a, t))

AssignTicket(a, t, u) ==
    Serve("assignTicket", a, t, Undefined, u, assignTicket(a, t, u))

UnassignTicket(a, t) ==
    Serve("unassignTicket", a, t, Undefined, Undefined, unassignTicket(a, t))

CreateProject(a, id, name, st) ==
    /\ id \notin DOMAIN projects
    /\ Serve("createProject", a, id, Undefined, Undefined,
             createProject(a, id, name, st))

GetProjectById(a, p) ==
    Serve("getProjectById", a, p, Undefined, Undefined, getProjectById(a, p))

UpdateProject(a, p, name, st) ==
    Serve("updateProject", a, p, Undefined, Undefined,
          updateProject(a, p, [name |-> name, status |-> st]))

DeleteProject(a, p) ==
    Serve("deleteProject", a, p, Undefined, Undefined, deleteProject(a, p))

AddProjectMember(a, p, u, role) ==
    Serve("addProjectMember", a, p, Undefined, u, addProjectMember(a, p, u, role))

RemoveProjectMember(a, p, u) ==
    Serve("removeProjectMember", a, p, Undefined, u, removeProjectMember(a, p, u))

UpdateMemberRole(a, p, u, role) ==
    Serve("updateMemberRole", a, p, Undefined, u, updateMemberRole(a, p, u, role))

UpdateUserStatus(a, u, b) ==
    Serve("updateUserStatus", a, u, Undefined, u, updateUserStatus(a, u, b))

UpdateUserRole(a, u, role) ==
    Serve("updateUserRole", a, u, Undefined, u, updateUserRole(a, u, role))

DeleteUser(a, u) ==
    Serve("deleteUser", a, u, Undefined, u, deleteUser(a, u))

RegisterUser(email, role) ==
    Serve("registerUser", Undefined, email, Undefined, email, registerUser(email, role))

\* the promise of sendEmail settles after the response has gone out: fulfilled
SendEmailFulfilled(i) ==
    /\ i \in 1..Len(last.mail)
    /\ last.mail[i].state = "pending"
    /\ last' = [last EXCEPT !.mail[i].state = "sent"]
    /\ UNCHANGED <<users, projects, tickets, inflight>>

SendEmailRejectedUncaught(i) ==
    /\ i \in 1..Len(last.mail)
    /\ last.mail[i].state = "pending"
    /\ last' = [last EXCEPT !.mail[i].state = "failed", !.code = 500]
    /\ UNCHANGED <<users, projects, tickets, inflight>>

\* rejected: .catch(() => {}) takes the error
SendEmailRejected(i) ==
    /\ i \in 1..Len(last.mail)
    /\ last.mail[i].state = "pending"
    /\ last' = [last EXCEPT !.mail[i].state = "failed"]
    /\ UNCHANGED <<users, projects, tickets, inflight>>

\* ---------------------------------------------------------------- concurrent requests

\* A handler is a chain of awaits, and between two awaits the handler of
\* another request may run.  A request in flight keeps what its handler holds
\* in memory: req.user as authenticate loaded it, the project document as
\* findOne returned it, and the members pushed onto that document and not yet
\* saved.  Each step below is one database call with the synchronous code that
\* follows it, up to the next await or the response.
RequestIds == {"r1", "r2"}

Request(op, a, target, project, user, role, body) ==
    [op |-> op, pc |-> "findProject", actor |-> a, reqUser |-> users[a],
     target |-> target, project |-> project, user |-> user, role |-> role,
     body |-> body, doc |-> << >>, pushed |-> << >>]

\* res.json / the error handler: the request is answered and is over
Respond(r, code, mail) ==
    /\ last' = [op |-> inflight[r].op, actor |-> inflight[r].actor,
                target |-> inflight[r].target, project |-> inflight[r].project,
                user |-> inflight[r].user, code |-> code, mail |-> mail]
    /\ inflight' = Remove(inflight, r)

Goto(r, pc, doc) ==
    /\ inflight' = [inflight EXCEPT ![r].pc = pc, ![r].doc = doc]
    /\ UNCHANGED last

At(r, op, pc) == r \in DOMAIN inflight /\ inflight[r].op = op /\ inflight[r].pc = pc

\* the middleware of the route: authenticate, then the check that follows it
\* (0 when it passes)
Receive(r, req, check) ==
    /\ r \notin DOMAIN inflight
    /\ IF authenticate(req.actor) # 0 \/ check # 0
       THEN /\ last' = [op |-> req.op, actor |-> req.actor, target |-> req.target,
                        project |-> req.project, user |-> req.user,
                        code |-> IF authenticate(req.actor) # 0 THEN 401 ELSE check,
                        mail |-> << >>]
            /\ UNCHANGED inflight
       ELSE /\ inflight' = Put(inflight, r, req)
            /\ UNCHANGED last
    /\ UNCHANGED <<users, projects, tickets>>

ReceiveAddProjectMember(r, a, id, userId, role) ==
    Receive(r, Request("addProjectMember", a, id, Undefined, userId, role, << >>), 0)

\* Project.findOne({ _id: id, isActive: true }) and the permission check
AddProjectMemberFindProject(r) ==
    /\ At(r, "addProjectMember", "findProject")
    /\ LET req == inflight[r] IN
       IF ~findActiveProject(req.target) THEN Respond(r, 404, << >>)
       ELSE IF req.reqUser.role # "ADMIN" /\ projects[req.target].createdBy # req.actor
            THEN Respond(r, 403, << >>)
       ELSE Goto(r, "findUser", <<projects[req.target]>>)
    /\ UNCHANGED <<users, projects, tickets>>

\* User.findOne({ _id: userId, isActive: true }), the existingMember check on
\* the loaded document, and the push
AddProjectMemberFindUser(r) ==
    /\ At(r, "addProjectMember", "findUser")
    /\ LET req == inflight[r] IN
       IF ~findActiveUser(req.user) THEN Respond(r, 404, << >>)
       ELSE IF findMemberIndex(req.doc[1].members, req.user) # 0
            THEN Respond(r, 400, << >>)
       ELSE /\ inflight' =
                  [inflight EXCEPT
                     ![r].pc = "save",
                     ![r].pushed =
                         <<[user |-> req.user,
                            role |-> IF req.role # Undefined THEN req.role
                                     ELSE "CONTRIBUTOR"]>>]
            /\ UNCHANGED last
    /\ UNCHANGED <<users, projects, tickets>>

\* project.save(): Mongoose writes the changes of the document, not the
\* document: a push onto members goes out as $push on the stored array.  A
\* document that is no longer stored makes save() throw (500).
AddProjectMemberSave(r) ==
    /\ At(r, "addProjectMember", "save")
    /\ LET req == inflight[r] IN
       IF req.target \notin DOMAIN projects
       THEN /\ Respond(r, 500, << >>)
            /\ UNCHANGED projects
       ELSE /\ projects' = [projects EXCEPT ![req.target].members = @ \o req.pushed]
            /\ Respond(r, 200, sendProjectInvitationEmail(req.user))
    /\ UNCHANGED <<users, tickets>>

\* id: the _id the new ticket will get
ReceiveCreateTicket(r, a, id, body) ==
    /\ id \notin DOMAIN tickets
    /\ \A o \in DOMAIN inflight : inflight[o].op = "createTicket" => inflight[o].target # id
    /\ Receive(r, Request("createTicket", a, id, field(body, "project"),
                          field(body, "assignedTo"), Undefined, <<body>>),
               validateTicketCreation(body))

\* Project.findOne({ _id: project, isActive: true }) and the access check
CreateTicketFindProject(r) ==
    /\ At(r, "createTicket", "findProject")
    /\ LET req == inflight[r] IN
       IF ~findActiveProject(req.project) THEN Respond(r, 404, << >>)
       ELSE IF /\ req.reqUser.role # "ADMIN"
               /\ ~hasAccess(projects[req.project], req.actor, "CONTRIBUTOR")
            THEN Respond(r, 403, << >>)
       ELSE Goto(r, IF req.user # Undefined THEN "findAssignee" ELSE "create",
                 <<projects[req.project]>>)
    /\ UNCHANGED <<users, projects, tickets>>

\* User.findOne({ _id: assignedTo, isActive: true }) and the assignee's access
\* to the loaded project
CreateTicketFindAssignee(r) ==
    /\ At(r, "createTicket", "findAssignee")
    /\ LET req == inflight[r] IN
       IF ~findActiveUser(req.user) THEN Respond(r, 404, << >>)
       ELSE IF req.reqUser.role # "ADMIN" /\ ~hasAccess(req.doc[1], req.user, "VIEWER")
            THEN Respond(r, 403, << >>)
       ELSE Goto(r, "create", req.doc)
    /\ UNCHANGED <<users, projects, tickets>>

\* Ticket.create(...): the insert does not look at the projects collection
CreateTicketCreate(r) ==
    /\ At(r, "createTicket", "create")
    /\ LET req == inflight[r]
           body == req.body[1]
           doc == [project |-> req.project,
                   status |-> "OPEN",
                   priority |-> body.priority,
                   assignedTo |-> IF req.user # Undefined THEN req.user ELSE Null,
                   createdBy |-> req.actor,
                   estimatedHours |-> IF Supplied(body, "estimatedHours")
                                      THEN <<body.estimatedHours>> ELSE << >>,
                   actualHours |-> 0,
                   statusHistory |-> <<[status |-> "OPEN", changedBy |-> req.actor]>>,
                   resolvedAt |-> Null,
                   closedAt |-> Null]
       IN
       IF schemaValidate(doc) # 0
       THEN /\ Respond(r, 400, << >>)
            /\ UNCHANGED tickets
       ELSE /\ tickets' = Put(tickets, req.target, preSave(doc, FALSE, TRUE, Null))
            /\ Respond(r, 201, IF req.user # Undefined /\ req.user # req.actor
                               THEN sendTicketAssignmentEmail(req.user) ELSE << >>)
    /\ UNCHANGED <<users, projects>>

ReceiveDeleteProject(r, a, id) ==
    Receive(r, Request("deleteProject", a, id, Undefined, Undefined, Undefined, << >>),
            authorize(a))

\* Project.findOne({ _id: id, isActive: true })
DeleteProjectFindProject(r) ==
    /\ At(r, "deleteProject", "findProject")
    /\ LET req == inflight[r] IN
       IF ~findActiveProject(req.target) THEN Respond(r, 404, << >>)
       ELSE Goto(r, "findTicket", <<projects[req.target]>>)
    /\ UNCHANGED <<users, projects, tickets>>

\* Ticket.findOne({ project: id })
DeleteProjectFindTicket(r) ==
    /\ At(r, "deleteProject", "findTicket")
    /\ LET hasTickets == \E t \in DOMAIN tickets : tickets[t].project = inflight[r].target
       IN Goto(r, IF hasTickets THEN "save" ELSE "findByIdAndDelete", inflight[r].doc)
    /\ UNCHANGED <<users, projects, tickets>>

\* project.save() of the archived document: $set of isActive and status
DeleteProjectSave(r) ==
    /\ At(r, "deleteProject", "save")
    /\ LET req == inflight[r] IN
       IF req.target \notin DOMAIN projects
       THEN /\ Respond(r, 500, << >>)
            /\ UNCHANGED projects
       ELSE /\ projects' = [projects EXCEPT ![req.target].isActive = FALSE,
                                            ![req.target].status = "ARCHIVED"]
            /\ Respond(r, 200, << >>)
    /\ UNCHANGED <<users, tickets>>

\* Project.findByIdAndDelete(id)
DeleteProjectFindByIdAndDelete(r) ==
    /\ At(r, "deleteProject", "findByIdAndDelete")
    /\ projects' = Remove(projects, inflight[r].target)
    /\ Respond(r, 200, << >>)
    /\ UNCHANGED <<users, tickets>>

\* ---------------------------------------------------------------- specifications

NoRequest ==
    [op |-> "none", actor |-> Undefined, target |-> Undefined,
     project |-> Undefined, user |-> Undefined, code |-> 0, mail |-> << >>]

\* Three registered users and one project.  u1 is an ADMIN.  u2 created the
\* project as an ADMIN (only an ADMIN can create one) and has been demoted to
\* USER since.  u3 is a plain user.
InitUsers ==
    users = [u \in UserIds |->
               [role |-> IF u = "u1" THEN "ADMIN" ELSE "USER", isActive |-> TRUE]]

InitProject ==
    projects = [p \in {"p1"} |->
                  [name |-> "alpha", createdBy |-> "u2", isActive |-> TRUE,
                   status |-> "ACTIVE", members |-> << >>]]

Init ==
    /\ InitUsers
    /\ InitProject
    /\ tickets = << >>
    /\ last = NoRequest
    /\ inflight = << >>

\* Access control and assignment: every ticket request on one ticket, the
\* project requests that change who may act, and deactivation of users.
Next ==
    \/ \E a \in UserIds, asg \in UserIds \cup {Undefined} :
          CreateTicket(a, "t1", "p1", asg)
    \/ \E a \in UserIds : GetTicketById(a, "t1")
    \/ \E a \in UserIds, st \in {"RESOLVED", Undefined},
          asg \in UserIds \cup {Null, Undefined} : UpdateTicket(a, "t1", st, asg)
    \/ \E a \in UserIds : DeleteTicket(a, "t1")
    \/ \E a \in UserIds, u \in UserIds : AssignTicket(a, "t1", u)
    \/ \E a \in UserIds : UnassignTicket(a, "t1")
    \/ \E a \in UserIds : GetProjectById(a, "p1")
    \/ \E a \in UserIds : DeleteProject(a, "p1")
    \/ \E a \in UserIds, r \in MemberRoles \cup {Undefined} :
          AddProjectMember(a, "p1", "u3", r)
    \/ \E a \in UserIds : RemoveProjectMember(a, "p1", "u3")
    \/ \E a \in UserIds, r \in MemberRoles : UpdateMemberRole(a, "p1", "u3", r)
    \/ \E a \in UserIds, u \in {"u2", "u3"}, b \in BOOLEAN : UpdateUserStatus(a, u, b)

Spec == Init /\ [][Next]_vars

\* Projects and membership: two project ids, members drawn from u2 and u3, one
\* ticket that the admin files and deletes.
NextProject ==
    \/ \E a \in UserIds, id \in ProjIds, n \in Names : CreateProject(a, id, n, Undefined)
    \/ \E a \in UserIds, p \in ProjIds : GetProjectById(a, p)
    \/ \E a \in UserIds, p \in ProjIds, n \in Names \cup {Undefined} :
          UpdateProject(a, p, n, Undefined)
    \/ \E a \in UserIds, p \in ProjIds : DeleteProject(a, p)
    \/ \E a \in UserIds, u \in {"u2", "u3"}, r \in MemberRoles \cup {Undefined} :
          AddProjectMember(a, "p1", u, r)
    \/ \E a \in UserIds, u \in {"u2", "u3"} : RemoveProjectMember(a, "p1", u)
    \/ \E a \in UserIds, u \in {"u2", "u3"}, r \in MemberRoles :
          UpdateMemberRole(a, "p1", u, r)
    \/ \E p \in ProjIds : CreateTicket("u1", "t1", p, Undefined)
    \/ DeleteTicket("u1", "t1")

SpecProject == Init /\ [][NextProject]_vars

\* Ticket lifecycle: u2 has been added to the project as a CONTRIBUTOR; the
\* admin and the contributor file one ticket and move it through its statuses.
InitLifecycle ==
    /\ users = [u \in UserIds |->
                  [role |-> IF u = "u1" THEN "ADMIN" ELSE "USER", isActive |-> TRUE]]
    /\ projects = [p \in {"p1"} |->
                     [name |-> "alpha", createdBy |-> "u1", isActive |-> TRUE,
                      status |-> "ACTIVE",
                      members |-> <<[user |-> "u2", role |-> "CONTRIBUTOR"]>>]]
    /\ tickets = << >>
    /\ last = NoRequest
    /\ inflight = << >>

NextLifecycle ==
    \/ \E a \in {"u1", "u2"}, asg \in {"u2", Undefined} :
          CreateTicket(a, "t1", "p1", asg)
    \/ \E a \in {"u1", "u2"}, st \in TicketStatuses \cup {Undefined},
          asg \in {Null, Undefined} : UpdateTicket(a, "t1", st, asg)
    \/ \E a \in {"u1", "u2"} : AssignTicket(a, "t1", "u2")
    \/ \E a \in {"u1", "u2"} : UnassignTicket(a, "t1")
    \/ \E a \in {"u1", "u2"} : DeleteTicket(a, "t1")

SpecLifecycle == InitLifecycle /\ [][NextLifecycle]_vars

\* Authentication: two admins (u2 created project p1) and u3, a CONTRIBUTOR
\* member of p1.  Every handler is requested by every user, with inputs that
\* change the stores when the request is accepted, while the admins
\* deactivate, reactivate, promote and delete users.
InitAuth ==
    /\ users = [u \in UserIds |->
                  [role |-> IF u = "u3" THEN "USER" ELSE "ADMIN", isActive |-> TRUE]]
    /\ projects = [p \in {"p1"} |->
                     [name |-> "alpha", createdBy |-> "u2", isActive |-> TRUE,
                      status |-> "ACTIVE",
                      members |-> <<[user |-> "u3", role |-> "CONTRIBUTOR"]>>]]
    /\ tickets = << >>
    /\ last = NoRequest
    /\ inflight = << >>

NextAuth ==
    \/ \E a \in UserIds : CreateTicket(a, "t1", "p1", Undefined)
    \/ \E a \in UserIds : GetTicketById(a, "t1")
    \/ \E a \in UserIds : UpdateTicket(a, "t1", "CLOSED", Undefined)
    \/ \E a \in UserIds : DeleteTicket(a, "t1")
    \/ \E a \in UserIds : AssignTicket(a, "t1", "u3")
    \/ \E a \in UserIds : UnassignTicket(a, "t1")
    \/ \E a \in UserIds : CreateProject(a, "p2", "beta", Undefined)
    \/ \E a \in UserIds : GetProjectById(a, "p1")
    \/ \E a \in UserIds : UpdateProject(a, "p2", Undefined, "ON_HOLD")
    \/ \E a \in UserIds : DeleteProject(a, "p2")
    \/ \E a \in UserIds : AddProjectMember(a, "p2", "u3", "VIEWER")
    \/ \E a \in UserIds : RemoveProjectMember(a, "p2", "u3")
    \/ \E a \in UserIds : UpdateMemberRole(a, "p2", "u3", "MANAGER")
    \/ \E a \in UserIds, u \in {"u2", "u3"}, b \in BOOLEAN : UpdateUserStatus(a, u, b)
    \/ \E a \in UserIds : UpdateUserRole(a, "u3", "ADMIN")
    \/ \E a \in UserIds : DeleteUser(a, "u3")

SpecAuth == InitAuth /\ [][NextAuth]_vars

\* Notifications: the admin u1 created the project and u2 is a CONTRIBUTOR; u3
\* registers and is invited.  One ticket is filed, assigned and resolved, and
\* the messages of the last request are delivered or fail afterwards.
InitMail ==
    /\ users = [u \in {"u1", "u2"} |->
                  [role |-> IF u = "u1" THEN "ADMIN" ELSE "USER", isActive |-> TRUE]]
    /\ projects = [p \in {"p1"} |->
                     [name |-> "alpha", createdBy |-> "u1", isActive |-> TRUE,
                      status |-> "ACTIVE",
                      members |-> <<[user |-> "u2", role |-> "CONTRIBUTOR"]>>]]
    /\ tickets = << >>
    /\ last = NoRequest
    /\ inflight = << >>

NextMail ==
    \/ \E e \in {"u2", "u3"} : RegisterUser(e, Undefined)
    \/ \E a \in {"u1", "u2"} : AddProjectMember(a, "p1", "u3", Undefined)
    \/ \E a \in UserIds, asg \in UserIds \cup {Undefined} :
          CreateTicket(a, "t1", "p1", asg)
    \/ \E a \in UserIds, st \in {"RESOLVED", Undefined},
          asg \in UserIds \cup {Null, Undefined} : UpdateTicket(a, "t1", st, asg)
    \/ \E a \in UserIds, u \in UserIds : AssignTicket(a, "t1", u)
    \/ \E a \in UserIds : UnassignTicket(a, "t1")
    \/ \E i \in 1..Len(last.mail) : SendEmailFulfilled(i)
    \/ \E i \in 1..Len(last.mail) : SendEmailRejected(i)

SpecMail == InitMail /\ [][NextMail]_vars

\* Ticket fields: the project of SpecLifecycle; tickets are filed and updated
\* with bodies that give any subset of status, priority, assignee and the two
\* hour counts, with hours inside, on and outside the bounds.
HoursInputs == {MinHours - 1, MinHours, MaxHours, MaxHours + 1}

\* an optional number of a body: << >> for a field the body leaves out
OptionalHours == {<< >>} \cup {<<h>> : h \in HoursInputs}

WithNumber(body, f, opt) == IF opt = << >> THEN body ELSE (f :> opt[1]) @@ body

CreateBodies ==
    {WithNumber(WithNumber([project |-> "p1", priority |-> pr],
                           "estimatedHours", eh), "actualHours", ah) :
        pr \in {"LOW", "HIGH"}, eh \in OptionalHours, ah \in OptionalHours}

UpdateBodies ==
    {WithNumber(WithNumber([status |-> st, priority |-> pr, assignedTo |-> asg],
                           "estimatedHours", eh), "actualHours", ah) :
        st \in {"RESOLVED", Undefined}, pr \in {"LOW", "HIGH", Undefined},
        asg \in {"u2", Null, Undefined}, eh \in OptionalHours, ah \in OptionalHours}

NextFields ==
    \/ \E a \in {"u1", "u2"}, body \in CreateBodies : CreateTicketBody(a, "t1", body)
    \/ \E a \in {"u1", "u2"}, updates \in UpdateBodies :
          UpdateTicketBody(a, "t1", updates)
    \/ \E a \in {"u1", "u2"} : AssignTicket(a, "t1", "u2")
    \/ \E a \in {"u1", "u2"} : UnassignTicket(a, "t1")
    \/ \E a \in {"u1", "u2"} : DeleteTicket(a, "t1")

SpecFields == InitLifecycle /\ [][NextFields]_vars

\* Ticket listing: u2 created p1 and u3 is a VIEWER of it; the admin u1 created
\* p2.  The admin files and resolves tickets in both projects, changes the
\* membership of u3 and deletes projects, and every user lists tickets with
\* and without a project and a status filter.
InitQuery ==
    /\ InitUsers
    /\ projects = [p \in ProjIds |->
                     [name |-> IF p = "p1" THEN "alpha" ELSE "beta",
                      createdBy |-> IF p = "p1" THEN "u2" ELSE "u1",
                      isActive |-> TRUE, status |-> "ACTIVE",
                      members |-> IF p = "p1" THEN <<[user |-> "u3", role |-> "VIEWER"]>>
                                  ELSE << >>]]
    /\ tickets = << >>
    /\ last = NoRequest
    /\ inflight = << >>

NextQuery ==
    \/ \E t \in TicketIds, p \in ProjIds : CreateTicket("u1", t, p, Undefined)
    \/ \E t \in TicketIds : UpdateTicket("u1", t, "RESOLVED", Undefined)
    \/ \E p \in ProjIds : DeleteProject("u1", p)
    \/ \E p \in ProjIds : AddProjectMember("u1", p, "u3", Undefined)
    \/ RemoveProjectMember("u1", "p1", "u3")
    \/ \E a \in UserIds, p \in ProjIds \cup {Undefined}, st \in {"RESOLVED", Undefined} :
          GetAllTickets(a, [project |-> p, status |-> st])

SpecQuery == InitQuery /\ [][NextQuery]_vars

\* Concurrent requests: the project of SpecLifecycle (created by the admin u1,
\* u2 a CONTRIBUTOR).  Two requests at a time are in flight, each one of:
\* the admin adds u3 to the project, the admin or u2 files a ticket in it, the
\* admin deletes it; their steps interleave in every order.
NextConcurrent ==
    \/ \E r \in RequestIds : ReceiveAddProjectMember(r, "u1", "p1", "u3", Undefined)
    \/ \E r \in RequestIds : AddProjectMemberFindProject(r)
    \/ \E r \in RequestIds : AddProjectMemberFindUser(r)
    \/ \E r \in RequestIds : AddProjectMemberSave(r)
    \/ \E r \in RequestIds, a \in {"u1", "u2"}, id \in TicketIds, asg \in {"u2", Undefined} :
          ReceiveCreateTicket(r, a, id,
                              [project |-> "p1", assignedTo |-> asg, priority |-> "MEDIUM"])
    \/ \E r \in RequestIds : CreateTicketFindProject(r)
    \/ \E r \in RequestIds : CreateTicketFindAssignee(r)
    \/ \E r \in RequestIds : CreateTicketCreate(r)
    \/ \E r \in RequestIds : ReceiveDeleteProject(r, "u1", "p1")
    \/ \E r \in RequestIds : DeleteProjectFindProject(r)
    \/ \E r \in RequestIds : DeleteProjectFindTicket(r)
    \/ \E r \in RequestIds : DeleteProjectSave(r)
    \/ \E r \in RequestIds : DeleteProjectFindByIdAndDelete(r)

SpecConcurrent == InitLifecycle /\ [][NextConcurrent]_vars

\* User administration: the users and the project of SpecAuth; every user asks
\* for every change of role and status and every deletion, of itself and of
\* the others.
NextUsers ==
    \/ \E a \in UserIds, u \in UserIds, r \in UserRoles : UpdateUserRole(a, u, r)
    \/ \E a \in UserIds, u \in UserIds, b \in BOOLEAN : UpdateUserStatus(a, u, b)
    \/ \E a \in UserIds, u \in UserIds : DeleteUser(a, u)

SpecUsers == InitAuth /\ [][NextUsers]_vars

\* ---------------------------------------------------------------- properties

\* the capability levels as the specification orders them
Rank == [VIEWER |-> 1, CONTRIBUTOR |-> 2, MANAGER |-> 3]

\* u holds level L on the project: its creator, or listed with a role of at
\* least that rank
Holds(project, u, L) ==
    \/ project.createdBy = u
    \/ \E i \in 1..Len(project.members) :
          /\ project.members[i].user = u
          /\ Rank[project.members[i].role] >= Rank[L]

IsMemberAs(project, u, role) ==
    \E i \in 1..Len(project.members) :
        project.members[i] = [user |-> u, role |-> role]

StoresUnchanged == users' = users /\ projects' = projects /\ tickets' = tickets

\* the request passed authenticate: its user exists and is active
Authenticated(l) == l.actor \in DOMAIN users /\ users[l.actor].isActive

Succeeded(l) == l.code \in {200, 201}

GatedOps ==
    {"getProjectById", "getTicketById", "createTicket", "updateTicket",
     "assignTicket", "unassignTicket"}

\* the level the usage matrix asks of a request
RequiredLevel(l) ==
    IF l.op \in {"getProjectById", "getTicketById"} THEN "VIEWER" ELSE "CONTRIBUTOR"

\* the project a request is gated on, Undefined when it names no stored one
GateProject(l) ==
    LET p == IF l.op = "getProjectById" THEN l.target
             ELSE IF l.op = "createTicket" THEN l.project
             ELSE IF l.target \in DOMAIN tickets THEN tickets[l.target].project
             ELSE Undefined
    IN IF p \in DOMAIN projects THEN p ELSE Undefined

\* the request gets as far as the access gate: the record it names is found
\* (getProjectById and createTicket look for an active project)
ReachesGate(l) ==
    /\ GateProject(l) # Undefined
    /\ l.op \in {"getProjectById", "createTicket"} => projects[GateProject(l)].isActive

\* C3: for a non-ADMIN actor, getProjectById and getTicketById succeed only
\* with VIEWER access, createTicket, updateTicket, assignTicket and
\* unassignTicket only with CONTRIBUTOR access; without it the request changes
\* nothing and, when the record it names is found, is answered 403.  An ADMIN
\* is never answered 403 by these requests.
C3_AccessGate ==
    [][(last'.op \in GatedOps /\ Authenticated(last')) =>
         LET a == last'.actor
             p == GateProject(last')
             ok == p # Undefined /\ Holds(projects[p], a, RequiredLevel(last'))
         IN IF users[a].role = "ADMIN" THEN last'.code # 403
            ELSE /\ Succeeded(last') => ok
                 /\ ~ok => StoresUnchanged /\ ~Succeeded(last')
                 /\ (ReachesGate(last') /\ ~ok) => last'.code = 403]_vars

\* a VIEWER member, who may read the ticket, has just been refused an update
C3_Witness ==
    /\ last.op = "updateTicket" /\ last.code = 403
    /\ last.target \in DOMAIN tickets
    /\ IsMemberAs(projects[tickets[last.target].project], last.actor, "VIEWER")

\* C4: a request by a user whose isActive is false is answered 401 by
\* authenticate and changes no user, project or ticket, whatever the user's
\* role, memberships and projects.
C4_InactiveRejected ==
    [][(last'.actor \in DOMAIN users /\ ~users[last'.actor].isActive) =>
         /\ last'.code = 401
         /\ StoresUnchanged]_vars

\* a deactivated ADMIN who created a project has just been refused
C4_Witness ==
    /\ last.code = 401 /\ last.op = "deleteUser"
    /\ last.actor \in DOMAIN users
    /\ ~users[last.actor].isActive
    /\ users[last.actor].role = "ADMIN"
    /\ \E p \in DOMAIN projects : projects[p].createdBy = last.actor

\* C5: createTicket, updateTicket and assignTicket with a non-null assignee
\* succeed only if the assignee is an existing active user who, when the actor
\* is not ADMIN, is the creator or a member of the ticket's project; otherwise
\* nothing is created or changed.  For an ADMIN actor existence and activity
\* of the assignee are enough.
C5_AssigneeValid ==
    [][(/\ last'.op \in {"createTicket", "updateTicket", "assignTicket"}
        /\ last'.user \notin {Undefined, Null}
        /\ Authenticated(last')) =>
         LET a == last'.actor
             u == last'.user
             p == GateProject(last')
             active == u \in DOMAIN users /\ users[u].isActive
             valid == /\ active
                      /\ \/ users[a].role = "ADMIN"
                         \/ p # Undefined /\ Holds(projects[p], u, "VIEWER")
         IN /\ Succeeded(last') =>
                 /\ valid
                 /\ tickets'[last'.target].assignedTo = u
            /\ ~valid => StoresUnchanged /\ ~Succeeded(last')
            /\ (users[a].role = "ADMIN" /\ active /\ ReachesGate(last'))
                 => Succeeded(last')]_vars

\* the project's creator, not an ADMIN, has just been refused the assignment
\* of an active user who is neither creator nor member
C5_Witness ==
    /\ last.op = "assignTicket" /\ last.code = 403
    /\ last.target \in DOMAIN tickets
    /\ projects[tickets[last.target].project].createdBy = last.actor
    /\ users[last.user].isActive
    /\ ~Holds(projects[tickets[last.target].project], last.user, "VIEWER")

\* C6: deleteTicket on a stored ticket succeeds, and removes it, exactly when
\* the actor is ADMIN, the creator of the ticket's project or the creator of
\* the ticket; anyone else, a MANAGER member included, is answered 403 and
\* nothing changes.
C6_DeleteTicket ==
    [][(/\ last'.op = "deleteTicket"
        /\ Authenticated(last')
        /\ last'.target \in DOMAIN tickets) =>
         LET a == last'.actor
             t == last'.target
             may == \/ users[a].role = "ADMIN"
                    \/ projects[tickets[t].project].createdBy = a
                    \/ tickets[t].createdBy = a
         IN /\ last'.code = 200 <=> may
            /\ may => t \notin DOMAIN tickets'
            /\ ~may => last'.code = 403 /\ StoresUnchanged]_vars

\* a MANAGER member has just been refused the deletion of a ticket
C6_Witness ==
    /\ last.op = "deleteTicket" /\ last.code = 403
    /\ last.target \in DOMAIN tickets
    /\ IsMemberAs(projects[tickets[last.target].project], last.actor, "MANAGER")

ManageOps ==
    {"updateProject", "addProjectMember", "removeProjectMember", "updateMemberRole"}

\* C7: updateProject, addProjectMember, removeProjectMember and
\* updateMemberRole succeed only for an ADMIN or the project's creator; for
\* anyone else, a MANAGER member included, nothing changes and the answer on
\* an active project is 403.
C7_OwnerOnly ==
    [][(last'.op \in ManageOps /\ Authenticated(last')) =>
         LET a == last'.actor
             p == last'.target
             owner == /\ p \in DOMAIN projects
                      /\ users[a].role = "ADMIN" \/ projects[p].createdBy = a
         IN /\ Succeeded(last') => owner
            /\ ~owner => StoresUnchanged /\ ~Succeeded(last')
            /\ (p \in DOMAIN projects /\ projects[p].isActive /\ ~owner)
                 => last'.code = 403]_vars

\* a MANAGER member has just been refused a change of the project
C7_Witness ==
    /\ last.op \in ManageOps /\ last.code = 403
    /\ last.target \in DOMAIN projects
    /\ IsMemberAs(projects[last.target], last.actor, "MANAGER")

\* the last position of the history at which the ticket was OPEN or IN_PROGRESS
LastOpen(h) ==
    CHOOSE k \in 0..Len(h) :
        /\ k # 0 => h[k].status \in {"OPEN", "IN_PROGRESS"}
        /\ \A j \in (k + 1)..Len(h) : h[j].status \notin {"OPEN", "IN_PROGRESS"}

\* C8 as stated: resolvedAt is non-null exactly when the status is RESOLVED.
C8_Original ==
    \A t \in DOMAIN tickets :
        tickets[t].resolvedAt # Null <=> tickets[t].status = "RESOLVED"

\* C8, amended: resolvedAt is non-null whenever the status is RESOLVED and
\* null whenever it is OPEN or IN_PROGRESS; a CLOSED ticket keeps the
\* resolvedAt it had, so it is non-null exactly if the ticket has been
\* RESOLVED since it was last OPEN or IN_PROGRESS.
C8_ResolvedAt ==
    \A t \in DOMAIN tickets :
        LET h == tickets[t].statusHistory IN
        /\ tickets[t].status = "RESOLVED" => tickets[t].resolvedAt # Null
        /\ tickets[t].status \in {"OPEN", "IN_PROGRESS"} => tickets[t].resolvedAt = Null
        /\ tickets[t].status = "CLOSED" =>
              (tickets[t].resolvedAt # Null
                 <=> \E i \in (LastOpen(h) + 1)..Len(h) : h[i].status = "RESOLVED")

\* a ticket resolved and then closed by updateTicket still carries resolvedAt
C8_Witness ==
    /\ last.op = "updateTicket" /\ last.code = 200
    /\ last.target \in DOMAIN tickets
    /\ tickets[last.target].status = "CLOSED"
    /\ tickets[last.target].resolvedAt # Null

\* C9: closedAt is non-null exactly when the status is CLOSED.
C9_ClosedAt ==
    \A t \in DOMAIN tickets :
        tickets[t].closedAt # Null <=> tickets[t].status = "CLOSED"

\* a ticket that was CLOSED and has been moved to RESOLVED has no closedAt
C9_Witness ==
    /\ last.op = "updateTicket" /\ last.code = 200
    /\ last.target \in DOMAIN tickets
    /\ LET h == tickets[last.target].statusHistory IN
          /\ Len(h) >= 2
          /\ h[Len(h) - 1].status = "CLOSED"
          /\ h[Len(h)].status = "RESOLVED"
    /\ tickets[last.target].closedAt = Null

\* C10: an update that changes the status to RESOLVED leaves resolvedAt
\* non-null, an update that changes it from RESOLVED to OPEN leaves resolvedAt
\* null, and a ticket that is OPEN or IN_PROGRESS never has resolvedAt or
\* closedAt.
C10_ResolveReopen ==
    /\ [](\A t \in DOMAIN tickets :
            tickets[t].status \in {"OPEN", "IN_PROGRESS"} =>
                tickets[t].resolvedAt = Null /\ tickets[t].closedAt = Null)
    /\ [][\A t \in (DOMAIN tickets) \cap (DOMAIN tickets') :
            (last'.op = "updateTicket" /\ tickets'[t].status # tickets[t].status) =>
               /\ tickets'[t].status = "RESOLVED" => tickets'[t].resolvedAt # Null
               /\ (tickets[t].status = "RESOLVED" /\ tickets'[t].status = "OPEN")
                     => tickets'[t].resolvedAt = Null]_vars

\* a ticket resolved and then reopened by updateTicket has lost its resolvedAt
C10_Witness ==
    /\ last.op = "updateTicket" /\ last.code = 200
    /\ last.target \in DOMAIN tickets
    /\ LET h == tickets[last.target].statusHistory IN
          /\ Len(h) >= 3
          /\ h[Len(h) - 1].status = "RESOLVED"
          /\ h[Len(h)].status = "OPEN"
    /\ tickets[last.target].resolvedAt = Null

\* C11: a successful updateTicket that changes the status appends exactly one
\* statusHistory entry, carrying the new status and the acting user; a
\* successful updateTicket that gives no status or the current one, an
\* assignTicket and an unassignTicket leave statusHistory as it was.
C11_HistoryAppend ==
    [][(last'.code = 200 /\ last'.target \in DOMAIN tickets) =>
          LET a == last'.actor
              t == last'.target
          IN
          /\ \A st \in TicketStatuses \cup {Undefined} :
                UpdateTicket(a, t, st, last'.user) =>
                    IF st \notin {Undefined, tickets[t].status}
                    THEN tickets'[t].statusHistory =
                            Append(tickets[t].statusHistory,
                                   [status |-> st, changedBy |-> a])
                    ELSE tickets'[t].statusHistory = tickets[t].statusHistory
          /\ last'.op \in {"assignTicket", "unassignTicket"}
                => tickets'[t].statusHistory = tickets[t].statusHistory]_vars

\* a user who did not file the ticket has just changed its status, and the
\* second entry of the history carries that user and the new status
C11_Witness ==
    /\ last.op = "updateTicket" /\ last.code = 200
    /\ last.target \in DOMAIN tickets
    /\ last.actor # tickets[last.target].createdBy
    /\ LET h == tickets[last.target].statusHistory IN
          /\ Len(h) = 2
          /\ h[2] = [status |-> tickets[last.target].status, changedBy |-> last.actor]
          /\ h[2].status # h[1].status

\* C12: a ticket created by createTicket has status OPEN, createdBy equal to
\* the actor, no resolvedAt and no closedAt, and a statusHistory of exactly one
\* entry, OPEN by the actor: the save of the new ticket appends no second one.
C12_CreatedTicket ==
    [][(last'.op = "createTicket" /\ last'.code = 201) =>
          LET t == tickets'[last'.target] IN
          /\ t.status = "OPEN"
          /\ t.createdBy = last'.actor
          /\ t.resolvedAt = Null
          /\ t.closedAt = Null
          /\ t.statusHistory = <<[status |-> "OPEN", changedBy |-> last'.actor]>>]_vars

\* the CONTRIBUTOR member has just filed a ticket
C12_Witness ==
    /\ last.op = "createTicket" /\ last.code = 201
    /\ last.target \in DOMAIN tickets
    /\ users[last.actor].role # "ADMIN"
    /\ tickets[last.target].createdBy = last.actor
    /\ Len(tickets[last.target].statusHistory) = 1

\* C13: deleteProject on an active project by an ADMIN removes the project
\* record when no ticket references the project; when a ticket references it,
\* the record stays with isActive = false and status = ARCHIVED and the
\* tickets are unchanged.  A non-ADMIN actor, the creator included, is
\* answered 403 and changes nothing.
C13_DeleteProject ==
    [][(last'.op = "deleteProject" /\ Authenticated(last')) =>
          LET a == last'.actor
              p == last'.target
              admin == users[a].role = "ADMIN"
              active == p \in DOMAIN projects /\ projects[p].isActive
              referenced == \E t \in DOMAIN tickets : tickets[t].project = p
          IN /\ (admin /\ active /\ ~referenced) =>
                  /\ last'.code = 200
                  /\ projects' = Remove(projects, p)
             /\ (admin /\ active /\ referenced) =>
                  /\ last'.code = 200
                  /\ projects' = Put(projects, p,
                                     [projects[p] EXCEPT !.isActive = FALSE,
                                                         !.status = "ARCHIVED"])
             /\ ~admin => last'.code = 403 /\ projects' = projects
             /\ tickets' = tickets
             /\ users' = users]_vars

\* a project with a ticket has just been archived and is still stored
C13_Witness ==
    /\ last.op = "deleteProject" /\ last.code = 200
    /\ last.target \in DOMAIN projects
    /\ ~projects[last.target].isActive
    /\ projects[last.target].status = "ARCHIVED"
    /\ \E t \in DOMAIN tickets : tickets[t].project = last.target

SelfOps == {"updateUserRole", "updateUserStatus", "deleteUser"}

\* C14: updateUserRole, updateUserStatus and deleteUser by an ADMIN whose
\* target is the actor's own record are answered 403 (Forbidden) and leave the
\* user records unchanged.
C14_SelfTargetForbidden ==
    [][(/\ last'.op \in SelfOps
        /\ Authenticated(last')
        /\ users[last'.actor].role = "ADMIN"
        /\ last'.target = last'.actor) =>
          /\ last'.code = 403
          /\ users' = users]_vars

\* an ADMIN has just asked for the deletion of its own record and has been
\* answered 400, the record unchanged
C14_Witness ==
    /\ last.op = "deleteUser" /\ last.code = 400
    /\ last.target = last.actor
    /\ last.actor \in DOMAIN users
    /\ users[last.actor].role = "ADMIN"
    /\ users[last.actor].isActive

\* a project or a ticket holds a reference to user u
Referenced(u) ==
    \/ \E p \in DOMAIN projects :
          \/ projects[p].createdBy = u
          \/ \E i \in 1..Len(projects[p].members) : projects[p].members[i].user = u
    \/ \E t \in DOMAIN tickets :
          \/ tickets[t].createdBy = u
          \/ tickets[t].assignedTo = u
          \/ \E i \in 1..Len(tickets[t].statusHistory) :
                tickets[t].statusHistory[i].changedBy = u

\* C15: deleteUser removes a user record only if no project and no ticket
\* references the user (as project creator, project member, ticket creator,
\* ticket assignee or status-history author), and otherwise keeps the record
\* and only sets isActive to false; hence every user reference held by a
\* project or a ticket resolves to an existing user record.
C15_ReferencesResolve ==
    /\ [](\A u \in UserIds : Referenced(u) => u \in DOMAIN users)
    /\ [][(last'.op = "deleteUser" /\ last'.code = 200) =>
            LET u == last'.target IN
            IF Referenced(u)
            THEN users' = Put(users, u, [users[u] EXCEPT !.isActive = FALSE])
            ELSE users' = Remove(users, u)]_vars

\* a user who is listed in a project's members has just been deleted, and the
\* record is gone
C15_Witness ==
    /\ last.op = "deleteUser" /\ last.code = 200
    /\ last.target \notin DOMAIN users
    /\ \E p \in DOMAIN projects : \E i \in 1..Len(projects[p].members) :
          projects[p].members[i].user = last.target

\* C16: no two project records, active or archived, have the same name.
\* createProject with the name of a stored project and updateProject renaming
\* to the name of another stored project are rejected and change nothing; an
\* updateProject that gives the project's own name is accepted.
C16_UniqueNames ==
    /\ [](\A p, q \in DOMAIN projects : p # q => projects[p].name # projects[q].name)
    /\ [][(last'.op \in {"createProject", "updateProject"} /\ Authenticated(last')) =>
            LET a == last'.actor
                id == last'.target
                held(n) == \E q \in (DOMAIN projects) \ {id} : projects[q].name = n
            IN
            /\ (last'.op = "createProject" /\ users[a].role = "ADMIN") =>
                  \A n \in Names : CreateProject(a, id, n, Undefined) =>
                     IF held(n) THEN last'.code = 400 /\ StoresUnchanged
                     ELSE last'.code = 201 /\ projects'[id].name = n
            /\ (/\ last'.op = "updateProject"
                /\ id \in DOMAIN projects /\ projects[id].isActive
                /\ users[a].role = "ADMIN" \/ projects[id].createdBy = a) =>
                  \A n \in Names : UpdateProject(a, id, n, Undefined) =>
                     IF n # projects[id].name /\ held(n)
                     THEN last'.code = 400 /\ StoresUnchanged
                     ELSE last'.code = 200 /\ projects'[id].name = n]_vars

\* a rename to the name of an archived project has just been refused
C16_Witness ==
    /\ last.op = "updateProject" /\ last.code = 400
    /\ last.target \in DOMAIN projects
    /\ \E q \in (DOMAIN projects) \ {last.target} :
          /\ ~projects[q].isActive
          /\ projects[q].name # projects[last.target].name

\* C17: with requests served one after the other, no user id appears twice in
\* a project's members; addProjectMember for a user already listed is rejected
\* and leaves the list unchanged; a member added without a role is a
\* CONTRIBUTOR.
C17_UniqueMembers ==
    /\ [](\A p \in DOMAIN projects :
            \A i, j \in 1..Len(projects[p].members) :
                i # j => projects[p].members[i].user # projects[p].members[j].user)
    /\ [][(/\ last'.op = "addProjectMember"
            /\ Authenticated(last')
            /\ last'.target \in DOMAIN projects
            /\ projects[last'.target].isActive
            /\ \/ users[last'.actor].role = "ADMIN"
               \/ projects[last'.target].createdBy = last'.actor) =>
            LET a == last'.actor
                p == last'.target
                u == last'.user
                listed == \E i \in 1..Len(projects[p].members) :
                             projects[p].members[i].user = u
            IN IF u \in DOMAIN users /\ users[u].isActive /\ listed
               THEN last'.code = 400 /\ StoresUnchanged
               ELSE \A r \in MemberRoles \cup {Undefined} :
                      (AddProjectMember(a, p, u, r) /\ last'.code = 200) =>
                         projects'[p].members =
                            Append(projects[p].members,
                                   [user |-> u,
                                    role |-> IF r = Undefined
                                             THEN "CONTRIBUTOR" ELSE r])]_vars

\* a second addProjectMember for a listed user has just been refused
C17_Witness ==
    /\ last.op = "addProjectMember" /\ last.code = 400
    /\ last.target \in DOMAIN projects
    /\ \E i \in 1..Len(projects[last.target].members) :
          projects[last.target].members[i].user = last.user
    /\ Len(projects[last.target].members) = 2

\* the step settles a message of the last request; every other step serves a
\* request
Settles == \E i \in 1..Len(last.mail) : SendEmailFulfilled(i) \/ SendEmailRejected(i)

\* the messages of one kind among those a request asked for
MailOf(mail, kind) == {i \in 1..Len(mail) : mail[i].kind = kind}

AssigningOps == {"createTicket", "updateTicket", "assignTicket", "unassignTicket"}

\* C18: createTicket, updateTicket, assignTicket and unassignTicket request an
\* assignment notification exactly when the ticket's assignedTo after the
\* request differs from its value before, is non-null and is not the acting
\* user; it is then requested once and addressed to the new assignee.
C18_AssignmentMail ==
    [][(last'.op \in AssigningOps /\ Succeeded(last') /\ ~Settles) =>
          LET t == last'.target
              before == IF t \in DOMAIN tickets THEN tickets[t].assignedTo ELSE Null
              after == tickets'[t].assignedTo
              sent == MailOf(last'.mail, "assignment")
          IN /\ sent # {} <=> (after # before /\ after # Null /\ after # last'.actor)
             /\ Cardinality(sent) <= 1
             /\ \A i \in sent : last'.mail[i].to = after]_vars

\* C19: updateTicket requests a status-change notification exactly when the
\* ticket's status after the update differs from its status before; the
\* recipients are the assignee after the update (when there is one) and the
\* ticket's creator, each once: one message when they are the same user.
C19_StatusMail ==
    [][(last'.op = "updateTicket" /\ Succeeded(last') /\ ~Settles) =>
          LET t == last'.target
              sent == MailOf(last'.mail, "status")
              recipients == ({tickets'[t].assignedTo} \ {Null}) \cup {tickets'[t].createdBy}
          IN /\ sent # {} <=> tickets'[t].status # tickets[t].status
             /\ sent # {} =>
                   /\ {last'.mail[i].to : i \in sent} = recipients
                   /\ Cardinality(sent) = Cardinality(recipients)]_vars

\* the status of a ticket assigned to its creator has just been changed by
\* someone else, and one status message was requested
C19_Witness ==
    /\ last.op = "updateTicket" /\ last.code = 200
    /\ last.target \in DOMAIN tickets
    /\ tickets[last.target].assignedTo = tickets[last.target].createdBy
    /\ last.actor # tickets[last.target].createdBy
    /\ Cardinality(MailOf(last.mail, "status")) = 1

\* C20: for registerUser, addProjectMember, createTicket, updateTicket and
\* assignTicket the response is produced while every message the request
\* asked for is still pending, and the response and the stored users,
\* projects and tickets stay the same when a message is delivered, when it
\* fails and while it stays pending.
C20_FireAndForget ==
    [][IF Settles
       THEN /\ StoresUnchanged
            /\ [last' EXCEPT !.mail = last.mail] = last
       ELSE \A i \in 1..Len(last'.mail) : last'.mail[i].state = "pending"]_vars

\* the invitation of a new member has failed; the request was answered 200
\* and the member is listed
C20_Witness ==
    /\ last.op = "addProjectMember" /\ last.code = 200
    /\ Len(last.mail) = 1 /\ last.mail[1].state = "failed"
    /\ \E i \in 1..Len(projects[last.target].members) :
          projects[last.target].members[i].user = last.user

\* C21: a request that is rejected (not found, conflict, forbidden, invalid
\* input or unauthenticated) leaves every stored user, project and ticket as it
\* was and requests no notification.
C21_RejectedChangesNothing ==
    [][(~Succeeded(last') /\ ~Settles) =>
          /\ StoresUnchanged
          /\ last'.mail = << >>]_vars

\* the assignment of a deactivated member has just been refused as not found
C21_Witness ==
    /\ last.op = "assignTicket" /\ last.code = 404
    /\ last.target \in DOMAIN tickets
    /\ last.user \in DOMAIN users
    /\ ~users[last.user].isActive
    /\ tickets[last.target].assignedTo # last.user

\* C22: assignTicket(u) is accepted exactly when updateTicket({assignedTo: u})
\* is, and then both leave the same stored ticket; unassignTicket is accepted
\* exactly when updateTicket({assignedTo: null}) is, and leaves the ticket with
\* assignedTo = null and every other field as it was.
C22_AssignIsUpdate ==
    [][(last'.op \in {"assignTicket", "unassignTicket"} /\ ~Settles) =>
          LET a == last'.actor
              t == last'.target
              asUpdate == updateTicket(a, t,
                              [status |-> Undefined,
                               assignedTo |-> IF last'.op = "assignTicket"
                                              THEN last'.user ELSE Null])
          IN /\ Succeeded(last') <=> asUpdate.code \in {200, 201}
             /\ last'.code = asUpdate.code
             /\ tickets' = asUpdate.tickets
             /\ (last'.op = "unassignTicket" /\ Succeeded(last')) =>
                   tickets'[t] = [tickets[t] EXCEPT !.assignedTo = Null]]_vars

\* a CONTRIBUTOR member has just unassigned a ticket whose status had been
\* changed before: the history and the timestamp are still there
C22_Witness ==
    /\ last.op = "unassignTicket" /\ last.code = 200
    /\ last.target \in DOMAIN tickets
    /\ IsMemberAs(projects[tickets[last.target].project], last.actor, "CONTRIBUTOR")
    /\ tickets[last.target].assignedTo = Null
    /\ Len(tickets[last.target].statusHistory) = 2
    /\ tickets[last.target].resolvedAt # Null

\* the allowedUpdates the model carries
UpdatableFields == {"status", "priority", "assignedTo", "estimatedHours", "actualHours"}

\* the stored value a supplied field of a body stands for
StoredValue(body, f) == IF f = "estimatedHours" THEN <<body[f]>> ELSE body[f]

\* C23: a successful updateTicket changes only the fields its body supplies,
\* plus statusHistory, resolvedAt and closedAt when the status changes; every
\* unsupplied field keeps its value; the project and createdBy of a stored
\* ticket never change under any operation.
C23_UpdateFrame ==
    /\ [](\A a \in UserIds : \A t \in DOMAIN tickets : \A updates \in UpdateBodies :
            LET r == updateTicket(a, t, updates)
                old == tickets[t]
                new == r.tickets[t]
            IN r.code = 200 =>
                 /\ \A f \in UpdatableFields :
                       new[f] = IF Supplied(updates, f)
                                THEN StoredValue(updates, f) ELSE old[f]
                 /\ new.project = old.project
                 /\ new.createdBy = old.createdBy
                 /\ new.status = old.status =>
                       /\ new.statusHistory = old.statusHistory
                       /\ new.resolvedAt = old.resolvedAt
                       /\ new.closedAt = old.closedAt
                 /\ \A x \in (DOMAIN tickets) \ {t} : r.tickets[x] = tickets[x]
                 /\ r.users = users /\ r.projects = projects)
    /\ [][\A t \in (DOMAIN tickets) \cap (DOMAIN tickets') :
            /\ tickets'[t].project = tickets[t].project
            /\ tickets'[t].createdBy = tickets[t].createdBy]_vars

\* a ticket filed with priority LOW and 1000 estimated hours has been resolved
\* by someone else's update and still has both
C23_Witness ==
    /\ last.op = "updateTicket" /\ last.code = 200
    /\ last.target \in DOMAIN tickets
    /\ last.actor # tickets[last.target].createdBy
    /\ tickets[last.target].status = "RESOLVED"
    /\ tickets[last.target].priority = "LOW"
    /\ tickets[last.target].estimatedHours = <<MaxHours>>
    /\ tickets[last.target].actualHours = MinHours

InRange(h) == h >= MinHours /\ h <= MaxHours

\* the body gives field f with a number outside [0, 1000]
OutOfRange(body, f) == Supplied(body, f) /\ ~InRange(body[f])

\* every stored ticket has its hours within [0, 1000]
HoursWithinBounds ==
    \A t \in DOMAIN tickets :
        /\ \A i \in 1..Len(tickets[t].estimatedHours) : InRange(tickets[t].estimatedHours[i])
        /\ InRange(tickets[t].actualHours)

\* the request was refused and wrote nothing
Refused(r) == r.code \notin {200, 201} /\ r.tickets = tickets

\* C24 as stated: stored estimatedHours (when set) and actualHours lie in
\* [0, 1000], and a createTicket or an updateTicket that gives either field
\* with a value outside the range is rejected and stores nothing.
C24_Original ==
    /\ HoursWithinBounds
    /\ \A a \in UserIds : \A body \in CreateBodies :
          (OutOfRange(body, "estimatedHours") \/ OutOfRange(body, "actualHours"))
             => Refused(createTicket(a, "t2", body))
    /\ \A a \in UserIds : \A t \in DOMAIN tickets : \A updates \in UpdateBodies :
          (OutOfRange(updates, "estimatedHours") \/ OutOfRange(updates, "actualHours"))
             => Refused(updateTicket(a, t, updates))

\* C24, amended: stored estimatedHours (when set) and actualHours lie in
\* [0, 1000]; a createTicket that gives estimatedHours, or an updateTicket that
\* gives estimatedHours or actualHours, outside the range is rejected and
\* stores nothing, neither the value nor the bound.  createTicket does not read
\* actualHours: whatever the body gives, a new ticket has actualHours = 0.
C24_HoursRange ==
    /\ HoursWithinBounds
    /\ \A a \in UserIds : \A body \in CreateBodies :
          LET r == createTicket(a, "t2", body) IN
          /\ OutOfRange(body, "estimatedHours") => Refused(r)
          /\ r.code = 201 => r.tickets["t2"].actualHours = 0
    /\ \A a \in UserIds : \A t \in DOMAIN tickets : \A updates \in UpdateBodies :
          (OutOfRange(updates, "estimatedHours") \/ OutOfRange(updates, "actualHours"))
             => Refused(updateTicket(a, t, updates))

\* an update has just been refused as invalid input; the ticket still has the
\* 1000 estimated hours it had, on the bound
C24_Witness ==
    /\ last.op = "updateTicket" /\ last.code = 400
    /\ last.target \in DOMAIN tickets
    /\ tickets[last.target].estimatedHours = <<1000>>

\* u created the project or is on its members list, and the project is active
CanView(u, p) ==
    /\ p \in DOMAIN projects
    /\ projects[p].isActive
    /\ projects[p].createdBy = u \/ findMemberIndex(projects[p].members, u) # 0

\* C25: when a caller who is not an ADMIN lists tickets, with or without a
\* project filter and whatever the status filter, every ticket returned is of
\* an active project the caller created or is a member of; a project filter
\* naming a project the caller has no access to returns no ticket.
C25_ListOnlyAccessible ==
    (last.op = "getAllTickets" /\ last.code = 200 /\ users[last.actor].role # "ADMIN")
       => \A st \in TicketStatuses \cup {Undefined} :
             LET found == findTickets(last.actor, [project |-> last.project, status |-> st])
             IN /\ \A t \in found : CanView(last.actor, tickets[t].project)
                /\ (last.project # Undefined /\ ~CanView(last.actor, last.project))
                      => found = {}

\* u3, who is neither creator nor member of p2, has listed the tickets of p2
\* and the list holds a ticket
C25_Witness ==
    /\ last.op = "getAllTickets" /\ last.code = 200
    /\ last.actor = "u3" /\ last.project = "p2"
    /\ ~CanView("u3", "p2")
    /\ findTickets("u3", [project |-> "p2", status |-> Undefined]) # {}

\* C26: however the steps of two concurrent addProjectMember requests for the
\* same project and the same user interleave, the stored members list holds
\* that user at most once.
C26_ConcurrentAddOnce ==
    \A p \in DOMAIN projects :
        \A i, j \in 1..Len(projects[p].members) :
            projects[p].members[i].user = projects[p].members[j].user => i = j

\* both requests have been answered 200 and u3 is on the members list twice
C26_Witness ==
    /\ inflight = << >>
    /\ last.op = "addProjectMember" /\ last.code = 200
    /\ "p1" \in DOMAIN projects
    /\ Cardinality({i \in 1..Len(projects["p1"].members) :
                       projects["p1"].members[i].user = "u3"}) = 2

\* C27: every stored ticket references a stored project, also when the steps
\* of createTicket (find the active project, then insert the ticket) and of
\* deleteProject (look for a ticket of the project, then remove the project)
\* interleave.
C27_TicketProjectStored ==
    \A t \in DOMAIN tickets : tickets[t].project \in DOMAIN projects

\* createTicket has been answered 201 for a ticket whose project deleteProject
\* has removed meanwhile
C27_Witness ==
    /\ inflight = << >>
    /\ last.op = "createTicket" /\ last.code = 201
    /\ last.target \in DOMAIN tickets
    /\ tickets[last.target].project \notin DOMAIN projects

\* C28: every stored ticket has a statusHistory that is not empty and whose
\* last entry carries the ticket's current status, and no step changes,
\* reorders or removes an entry a ticket already has: the history of a ticket
\* that stays stored keeps its old entries as a prefix.
C28_HistoryLog ==
    /\ [](\A t \in DOMAIN tickets :
             LET h == tickets[t].statusHistory IN
             Len(h) >= 1 /\ h[Len(h)].status = tickets[t].status)
    /\ [][\A t \in DOMAIN tickets \cap DOMAIN tickets' :
             LET h == tickets[t].statusHistory
                 g == tickets'[t].statusHistory
             IN Len(g) >= Len(h) /\ SubSeq(g, 1, Len(h)) = h]_vars

\* a second status change has just been recorded behind the first one, which
\* is still the second entry of the log
C28_Witness ==
    /\ last.op = "updateTicket" /\ last.code = 200
    /\ last.target \in DOMAIN tickets
    /\ LET h == tickets[last.target].statusHistory IN
          /\ Len(h) = 3
          /\ h[1].status = "OPEN"
          /\ h[2].status # h[3].status
          /\ h[3].status = tickets[last.target].status

\* the requests the routes address to one project
ProjectOps ==
    {"getProjectById", "updateProject", "deleteProject", "addProjectMember",
     "removeProjectMember", "updateMemberRole"}

\* the project a request is about: the project of the route, or the project in
\* the body of createTicket
ProjectOf(l) ==
    IF l.op \in ProjectOps THEN l.target
    ELSE IF l.op = "createTicket" THEN l.project
    ELSE Undefined

\* C29: a project with isActive = false has status ARCHIVED; no step changes
\* or removes the record of such a project; and a request on it (getProjectById,
\* updateProject, deleteProject, adding, removing or changing a member,
\* createTicket) never succeeds: it is answered NotFound whenever it comes from
\* an authenticated user who, for deleteProject, is an ADMIN.  This stays so
\* when the project has no tickets left.
C29_ArchivedTerminal ==
    /\ [](\A p \in DOMAIN projects :
             ~projects[p].isActive => projects[p].status = "ARCHIVED")
    /\ [][/\ \A p \in DOMAIN projects :
                ~projects[p].isActive
                   => p \in DOMAIN projects' /\ projects'[p] = projects[p]
          /\ LET p == ProjectOf(last') IN
             (last' # last /\ p \in DOMAIN projects /\ ~projects[p].isActive)
                => /\ ~Succeeded(last')
                   /\ (/\ Authenticated(last')
                       /\ last'.op = "deleteProject" => users[last'.actor].role = "ADMIN")
                         => last'.code = 404]_vars

\* the admin has asked to delete an archived project that has no tickets left:
\* the answer is NotFound and the record is still there, archived
C29_Witness ==
    /\ last.op = "deleteProject" /\ last.code = 404
    /\ last.target \in DOMAIN projects
    /\ ~projects[last.target].isActive
    /\ projects[last.target].status = "ARCHIVED"
    /\ \A t \in DOMAIN tickets : tickets[t].project # last.target
    /\ Authenticated(last) /\ users[last.actor].role = "ADMIN"

ActiveAdmins(us) == {u \in DOMAIN us : us[u].role = "ADMIN" /\ us[u].isActive}

\* C30: a step of updateUserRole, updateUserStatus or deleteUser taken where
\* an active ADMIN exists leaves an active ADMIN; when the request is
\* accepted, its actor was an active ADMIN, is not its target, and is an active
\* ADMIN afterwards.
C30_AdminRemains ==
    [][last'.op \in SelfOps =>
          /\ ActiveAdmins(users) # {} => ActiveAdmins(users') # {}
          /\ (Succeeded(last') /\ users' # users)
                => /\ last'.actor \in ActiveAdmins(users)
                   /\ last'.actor # last'.target
                   /\ last'.actor \in ActiveAdmins(users')]_vars

\* the admin u1 has just demoted, deactivated or deleted the other admin and
\* is the only active ADMIN left
C30_Witness ==
    /\ last.op \in SelfOps /\ last.code = 200
    /\ last.target = "u2"
    /\ ActiveAdmins(users) = {last.actor}

====
